---- MODULE Spec2Model ----
(***************************************************************************)
(* ApnaMandi (VercelCanvas): the order, pricing and delivery handlers of   *)
(* server/routes.ts over the tables of server/storage.ts.                  *)
(*                                                                         *)
(* Every table is a sequence of rows; a row's id is its index (the         *)
(* database generates a fresh id per insert).  A handler that awaits       *)
(* several storage calls is one action per storage call, so that other     *)
(* requests interleave exactly at its awaits; the code that follows the    *)
(* last await (res.json) belongs to the last action.  `last` is the HTTP   *)
(* response produced by the step just taken (NoResponse for a step that    *)
(* does not answer a request).                                             *)
(*                                                                         *)
(* products, procurementPrices, orders, orderItems, deliveries, users: the *)
(* tables.  req[r]: the POST /api/orders request in slot r (its locals and *)
(* the await it is at).  mark: the POST /api/partner/mark-delivered        *)
(* request.  auth: the POST /api/auth/register request.  seed[c]: the      *)
(* getAllProducts call in slot c; initialized: the storage's seeding flag. *)
(*                                                                         *)
(* The specifications run the same actions on different traffic:           *)
(*   Spec         every handler but set-price, short orders, storage faults*)
(*   SpecPlace    concurrent order placements                              *)
(*   SpecPrice    order placements against price updates                   *)
(*   SpecDemand   order placements against status updates                  *)
(*   SpecPartial  order placements whose item inserts fail                 *)
(*   SpecUnknown  order placements naming unknown products                 *)
(*   SpecErrors   malformed bodies and storage faults of every handler     *)
(*                that validates its body                                  *)
(*   SpecSeed     concurrent GET /api/products on a fresh product table    *)
(***************************************************************************)
EXTENDS Integers, Sequences, FiniteSets

\* ---------------------------------------------------------------- bounds
NumReq == 2          \* concurrent POST /api/orders requests
MaxOrders == 2       \* order rows
MaxLines == 2        \* line items of one request
MaxShortLines == 1   \* line items of one request where every handler runs
MaxQty == 2          \* quantity of one line
MaxLineProduct == 2  \* lines name products 1..MaxLineProduct
MaxPricedProduct == 1 \* price rows name products 1..MaxPricedProduct
MaxPrices == 2       \* procurement price rows
MaxDeliveries == 1   \* delivery rows
MaxUsers == 1        \* user rows
NumSeed == 3         \* concurrent getAllProducts calls

\* ------------------------------------------------------------- constants
ConvenienceFee == 40
EarningsFeePerOrder == 40

Statuses == {"PLACED", "PROCURING", "ON_THE_WAY", "DELIVERED"}

DefaultProducts ==
  << [name |-> "Onions", unit |-> "kg"],
     [name |-> "Potatoes", unit |-> "kg"],
     [name |-> "Cooking Oil", unit |-> "ltr"],
     [name |-> "Tomatoes", unit |-> "kg"] >>

\* Decimal strings a price row may hold ("10" and "10.00" are the same number).
PriceStrings == {"5", "10.00"}

\* Product ids a caller sends: they match no product row while the product
\* table is empty.
LineProducts == 1..MaxLineProduct
PricedProducts == 1..MaxPricedProduct
Quantities == 1..MaxQty
Lines == [productId : LineProducts, quantity : Quantities]
ItemLists == UNION {[1..n -> Lines] : n \in 0..MaxLines}
ShortItemLists == UNION {[1..n -> Lines] : n \in 0..MaxShortLines}
\* A product id that matches no row of the seeded product table.
UnknownProduct == Len(DefaultProducts) + 1
UnknownLines == Lines \cup {[productId |-> UnknownProduct, quantity |-> 1]}
UnknownItemLists == UNION {[1..n -> UnknownLines] : n \in 0..MaxLines}
OneLineItemLists == {<<>>, <<[productId |-> 1, quantity |-> 1]>>}

UserIds == {"u1"}
Emails == {"a@mandi.in"}
Passwords == {"secret", "guess"}

VARIABLES products, procurementPrices, orders, orderItems, deliveries,
          req, mark, last, users, auth, initialized, seed

vars == <<products, procurementPrices, orders, orderItems, deliveries,
          req, mark, last, users, auth, initialized, seed>>

\* The user table with the register request in flight, and the seeding flag
\* with the getAllProducts calls in flight: no order, price or delivery
\* handler reads or writes them.
authAndSeed == <<users, auth, initialized, seed>>

\* ------------------------------------------------------- pure functions
\* parseFloat on the decimal strings of PriceStrings.
ParseFloat(s) ==
  CASE s = "0" -> 0
    [] s = "5" -> 5
    [] s = "10" -> 10
    [] s = "10.00" -> 10

Digit(d) ==
  CASE d = 0 -> "0" [] d = 1 -> "1" [] d = 2 -> "2" [] d = 3 -> "3"
    [] d = 4 -> "4" [] d = 5 -> "5" [] d = 6 -> "6" [] d = 7 -> "7"
    [] d = 8 -> "8" [] d = 9 -> "9"

\* Number.prototype.toString of a non-negative integer.
RECURSIVE ToString(_)
ToString(n) == IF n < 10 THEN Digit(n) ELSE ToString(n \div 10) \o Digit(n % 10)

\* new Map(latestPrices.map(p => [p.productId, parseFloat(p.price)])):
\* a later entry of the same key replaces an earlier one.
LastIndexOf(rows, pid) ==
  CHOOSE i \in DOMAIN rows :
    /\ rows[i].productId = pid
    /\ \A j \in DOMAIN rows : rows[j].productId = pid => j <= i

\* Mutant of PriceMap: the first entry of a key is kept.
PriceMapFirstWins(rows) ==
  [pid \in {rows[i].productId : i \in DOMAIN rows} |->
     ParseFloat(rows[CHOOSE i \in DOMAIN rows :
                       /\ rows[i].productId = pid
                       /\ \A j \in DOMAIN rows :
                            rows[j].productId = pid => i <= j].price)]

PriceMap(rows) ==
  [pid \in {rows[i].productId : i \in DOMAIN rows} |->
     ParseFloat(rows[LastIndexOf(rows, pid)].price)]

\* Mutant of PriceOf: a missing price defaults to 1.
PriceOfDefaultOne(priceMap, pid) ==
  IF pid \in DOMAIN priceMap /\ priceMap[pid] # 0 THEN priceMap[pid] ELSE 1

\* priceMap.get(item.productId) || 0
PriceOf(priceMap, pid) ==
  IF pid \in DOMAIN priceMap /\ priceMap[pid] # 0 THEN priceMap[pid] ELSE 0

\* The orders of a SELECT without ORDER BY: the database may return the rows
\* in any order.
RowOrders(rows) ==
  LET n == Len(rows)
      bijections == {f \in [1..n -> 1..n] : \A i, j \in 1..n : f[i] = f[j] => i = j}
  IN {[i \in 1..n |-> rows[f[i]]] : f \in bijections}

\* ---------------------------------------------------------------- storage
\* Mutant of OrderItemForeignKeys: only the order reference is enforced.
OrderItemForeignKeysOrderOnly(item) == item.orderId \in DOMAIN orders

\* The schema's foreign keys (shared/schema.ts): an order item row references
\* an existing order and an existing product, or the insert is rejected.
OrderItemForeignKeys(item) ==
  /\ item.orderId \in DOMAIN orders
  /\ item.productId \in DOMAIN products

\* Mutant of NewOrder: the order starts in PROCURING.
NewOrderProcuring(userId) ==
  [userId |-> userId, status |-> "PROCURING", total |-> "0"]

\* The row POST /api/orders inserts: status PLACED, the placeholder total.
NewOrder(userId) == [userId |-> userId, status |-> "PLACED", total |-> "0"]

createOrder(insertOrder) == Append(orders, insertOrder)

\* Mutant of updateOrderStatus: the update also writes a total.
updateOrderStatusAndTotal(id, status) ==
  [i \in DOMAIN orders |->
     IF i = id THEN [orders[i] EXCEPT !.status = status, !.total = "40"]
     ELSE orders[i]]

\* Mutant of updateOrderStatus: only a PLACED order's status is updated.
updateOrderStatusIfPlaced(id, status) ==
  [i \in DOMAIN orders |->
     IF i = id /\ orders[i].status = "PLACED"
     THEN [orders[i] EXCEPT !.status = status] ELSE orders[i]]

\* Mutant of updateOrderStatus: an id that matches no order gets a new row.
updateOrderStatusUpsert(id, status) ==
  IF id \in DOMAIN orders
  THEN [orders EXCEPT ![id].status = status]
  ELSE Append(orders, [userId |-> "u1", status |-> status, total |-> "0"])

updateOrderStatus(id, status) ==
  [i \in DOMAIN orders |->
     IF i = id THEN [orders[i] EXCEPT !.status = status] ELSE orders[i]]

createOrderItem(insertItem) == Append(orderItems, insertItem)

\* Mutant of setProcurementPrice: the product's price row is replaced.
setProcurementPriceUpsert(insertPrice) ==
  LET other(row) == row.productId # insertPrice.productId
  IN Append(SelectSeq(procurementPrices, other), insertPrice)

setProcurementPrice(insertPrice) == Append(procurementPrices, insertPrice)

\* Mutant of createDelivery: the row is not inserted.
createDeliveryLost(insertDelivery) == deliveries

createDelivery(insertDelivery) == Append(deliveries, insertDelivery)

\* SELECT ... FROM order_items INNER JOIN products WHERE order_id = orderId
getOrderItems(orderId) ==
  LET match(row) == row.orderId = orderId /\ row.productId \in DOMAIN products
      rows == SelectSeq(orderItems, match)
  IN [i \in DOMAIN rows |->
        [orderId |-> rows[i].orderId, productId |-> rows[i].productId,
         quantity |-> rows[i].quantity, price |-> rows[i].price,
         product |-> products[rows[i].productId]]]

\* { ...order, items, user } of an existing order (users are not modelled).
getOrder(id) ==
  [id |-> id, userId |-> orders[id].userId, status |-> orders[id].status,
   total |-> orders[id].total, items |-> getOrderItems(id)]

\* Every order with its items (users are not modelled).
getAllOrders == [id \in DOMAIN orders |-> getOrder(id)]

getOrdersByUser(userId) ==
  LET ofUser(order) == order.userId = userId
  IN SelectSeq(getAllOrders, ofUser)

\* Mutant of ProcurementRows: every order that is not delivered counts.
ProcurementRowsNotDelivered ==
  LET match(row) ==
        /\ row.orderId \in DOMAIN orders
        /\ row.productId \in DOMAIN products
        /\ orders[row.orderId].status # "DELIVERED"
      rows == SelectSeq(orderItems, match)
  IN [i \in DOMAIN rows |->
        [productId |-> rows[i].productId,
         productName |-> products[rows[i].productId].name,
         totalQuantity |-> rows[i].quantity,
         unit |-> products[rows[i].productId].unit]]

\* The joined rows of getAggregatedProcurementList's query.
ProcurementRows ==
  LET match(row) ==
        /\ row.orderId \in DOMAIN orders
        /\ row.productId \in DOMAIN products
        /\ orders[row.orderId].status = "PLACED"
      rows == SelectSeq(orderItems, match)
  IN [i \in DOMAIN rows |->
        [productId |-> rows[i].productId,
         productName |-> products[rows[i].productId].name,
         totalQuantity |-> rows[i].quantity,
         unit |-> products[rows[i].productId].unit]]

\* result.forEach over the Map `aggregation`: a sequence of rows in the order
\* their keys were first set.
RECURSIVE Aggregate(_, _)
Aggregate(rows, acc) ==
  IF rows = <<>> THEN acc
  ELSE LET item == Head(rows)
           hit == {i \in DOMAIN acc : acc[i].productId = item.productId}
       IN IF hit # {}
          THEN LET i == CHOOSE i \in hit : TRUE
               IN Aggregate(Tail(rows),
                    [acc EXCEPT ![i].totalQuantity = @ + item.totalQuantity])
          ELSE Aggregate(Tail(rows), Append(acc, item))

getAggregatedProcurementList == Aggregate(ProcurementRows, <<>>)

\* Mutant of getPartnerEarnings: delivery rows are counted, not orders.
getPartnerEarningsByDeliveries(partnerId) ==
  [totalDeliveries |-> Len(deliveries),
   totalEarnings |-> Len(deliveries) * EarningsFeePerOrder]

getPartnerEarnings(partnerId) ==
  LET delivered(o) == o.status = "DELIVERED"
      deliveredOrders == SelectSeq(orders, delivered)
  IN [totalDeliveries |-> Len(deliveredOrders),
      totalEarnings |-> Len(deliveredOrders) * EarningsFeePerOrder]

\* ------------------------------------------------------------- responses
NoResponse == [op |-> "none"]
\* The exchange completed by a step: the handler, what it was asked (or how
\* it was refused) and the status it answered.  The body it sends is a function
\* of the state the step leaves (getOrder, the updated row, the new row).
Response(op, code, request) ==
  [op |-> op, code |-> code, request |-> request]

IdleReq == [pc |-> "idle"]
IdleMark == [pc |-> "idle"]
IdleAuth == [pc |-> "idle"]
IdleSeed == [pc |-> "idle"]
Idle(r) == req[r].pc = "idle"
Creating == {r \in 1..NumReq : req[r].pc = "createOrder"}

\* ------------------------------------------------------------------ Init
Init ==
  /\ products \in {<<>>, DefaultProducts}
  /\ procurementPrices = <<>>
  /\ orders = <<>>
  /\ orderItems = <<>>
  /\ deliveries = <<>>
  /\ req = [r \in 1..NumReq |-> IdleReq]
  /\ mark = IdleMark
  /\ last = NoResponse
  /\ users = <<>>
  /\ auth = IdleAuth
  /\ initialized = FALSE
  /\ seed = [c \in 1..NumSeed |-> IdleSeed]

\* ------------------------------------------------------ POST /api/orders
\* createOrderSchema.parse throws: the catch answers 500.
PlaceOrderMalformed ==
  /\ last' = Response("placeOrder", 500, "malformed")
  /\ UNCHANGED authAndSeed
  /\ UNCHANGED <<products, procurementPrices, orders, orderItems, deliveries,
                 req, mark>>

\* The first storage call (getLatestProcurementPrices) throws: the catch
\* answers 500.
PlaceOrderRejected ==
  /\ last' = Response("placeOrder", 500, "rejected")
  /\ UNCHANGED authAndSeed
  /\ UNCHANGED <<products, procurementPrices, orders, orderItems, deliveries,
                 req, mark>>

\* No user-id header.
PlaceOrderUnauthorized ==
  /\ last' = Response("placeOrder", 401, "unauthorized")
  /\ UNCHANGED authAndSeed
  /\ UNCHANGED <<products, procurementPrices, orders, orderItems, deliveries,
                 req, mark>>

\* The body parses, the user id is present, getLatestProcurementPrices
\* resolves with the rows in some order.  A request takes the lowest free
\* slot (slots only name the requests in flight).
PlaceOrderBegin(r, items, userId, latestPrices) ==
  /\ Idle(r)
  /\ \A q \in 1..(r - 1) : ~Idle(q)
  /\ Len(orders) + Cardinality(Creating) < MaxOrders
  /\ req' = [req EXCEPT ![r] =
       [pc |-> "createOrder", items |-> items, userId |-> userId,
        latestPrices |-> latestPrices, priceMap |-> PriceMap(latestPrices),
        total |-> ConvenienceFee, orderId |-> 0, done |-> 0]]
  /\ last' = NoResponse
  /\ UNCHANGED authAndSeed
  /\ UNCHANGED <<products, procurementPrices, orders, orderItems, deliveries,
                 mark>>

PlaceOrderCreateOrder(r) ==
  /\ req[r].pc = "createOrder"
  /\ orders' = createOrder(NewOrder(req[r].userId))
  /\ req' = [req EXCEPT ![r].orderId = Len(orders'),
                        ![r].pc = IF req[r].items = <<>> THEN "updateStatus"
                                                         ELSE "createItem"]
  /\ last' = NoResponse
  /\ UNCHANGED authAndSeed
  /\ UNCHANGED <<products, procurementPrices, orderItems, deliveries, mark>>

\* Mutant of ItemRow: the row goes under the newest order, not the request's.
ItemRowLatestOrder(r) ==
  LET item == req[r].items[req[r].done + 1]
      price == PriceOf(req[r].priceMap, item.productId)
  IN [orderId |-> Len(orders), productId |-> item.productId,
      quantity |-> item.quantity, price |-> ToString(price)]

\* Mutant of ItemRow: the price is read when the row is inserted.
ItemRowCurrentPrice(r) ==
  LET item == req[r].items[req[r].done + 1]
      price == PriceOf(PriceMap(procurementPrices), item.productId)
  IN [orderId |-> req[r].orderId, productId |-> item.productId,
      quantity |-> item.quantity, price |-> ToString(price)]

\* The insert row of one pass of the loop over items.
ItemRow(r) ==
  LET item == req[r].items[req[r].done + 1]
      price == PriceOf(req[r].priceMap, item.productId)
  IN [orderId |-> req[r].orderId, productId |-> item.productId,
      quantity |-> item.quantity, price |-> ToString(price)]

ItemTotal(r) ==
  LET item == req[r].items[req[r].done + 1]
      price == PriceOf(req[r].priceMap, item.productId)
  IN price * item.quantity

PlaceOrderCreateItem(r) ==
  /\ req[r].pc = "createItem"
  /\ OrderItemForeignKeys(ItemRow(r))
  /\ orderItems' = createOrderItem(ItemRow(r))
  /\ req' = [req EXCEPT ![r].total = @ + ItemTotal(r),
                        ![r].done = @ + 1,
                        ![r].pc = IF req[r].done + 1 = Len(req[r].items)
                                  THEN "updateStatus" ELSE "createItem"]
  /\ last' = NoResponse
  /\ UNCHANGED authAndSeed
  /\ UNCHANGED <<products, procurementPrices, orders, deliveries, mark>>

\* "Update order total": storage.updateOrderStatus(order.id, 'PLACED')
PlaceOrderUpdateStatus(r) ==
  /\ req[r].pc = "updateStatus"
  /\ orders' = updateOrderStatus(req[r].orderId, "PLACED")
  /\ req' = [req EXCEPT ![r].pc = "getOrder"]
  /\ last' = NoResponse
  /\ UNCHANGED authAndSeed
  /\ UNCHANGED <<products, procurementPrices, orderItems, deliveries, mark>>

\* finalOrder = getOrder(order.id); res.json(finalOrder).  The reads of the
\* order's items and user commute with every other request: only this request
\* writes items of its order.
PlaceOrderGetOrder(r) ==
  /\ req[r].pc = "getOrder"
  /\ last' = Response("placeOrder", 200, req[r])
  /\ req' = [req EXCEPT ![r] = IdleReq]
  /\ UNCHANGED authAndSeed
  /\ UNCHANGED <<products, procurementPrices, orders, orderItems, deliveries,
                 mark>>

\* createOrderItem throws on a row the schema rejects: the catch answers 500
\* and nothing is rolled back.
PlaceOrderItemRejected(r) ==
  /\ req[r].pc = "createItem"
  /\ ~OrderItemForeignKeys(ItemRow(r))
  /\ last' = Response("placeOrder", 500, "failed")
  /\ req' = [req EXCEPT ![r] = IdleReq]
  /\ UNCHANGED authAndSeed
  /\ UNCHANGED <<products, procurementPrices, orders, orderItems, deliveries,
                 mark>>

\* Mutant of PlaceOrderItemFail: the failed request's order and items are
\* removed (the inserts ran in a transaction).
PlaceOrderItemFailRollback(r) ==
  /\ req[r].pc = "createItem"
  /\ last' = Response("placeOrder", 500, "item failed")
  /\ req' = [req EXCEPT ![r] = IdleReq]
  /\ orders' = SubSeq(orders, 1, req[r].orderId - 1)
                 \o SubSeq(orders, req[r].orderId + 1, Len(orders))
  /\ orderItems' =
       LET kept(row) == row.orderId # req[r].orderId
       IN SelectSeq(orderItems, kept)
  /\ UNCHANGED authAndSeed
  /\ UNCHANGED <<products, procurementPrices, deliveries, mark>>

\* createOrderItem throws on a row the schema accepts (a lost connection):
\* the catch answers 500 and nothing is rolled back.
PlaceOrderItemFail(r) ==
  /\ req[r].pc = "createItem"
  /\ last' = Response("placeOrder", 500, "item failed")
  /\ req' = [req EXCEPT ![r] = IdleReq]
  /\ UNCHANGED authAndSeed
  /\ UNCHANGED <<products, procurementPrices, orders, orderItems, deliveries,
                 mark>>

\* The pending storage call of a request in flight throws (a lost
\* connection): the catch answers 500 and nothing is rolled back.
PlaceOrderFail(r) ==
  /\ ~Idle(r)
  /\ last' = Response("placeOrder", 500, "failed")
  /\ req' = [req EXCEPT ![r] = IdleReq]
  /\ UNCHANGED authAndSeed
  /\ UNCHANGED <<products, procurementPrices, orders, orderItems, deliveries,
                 mark>>

\* ---------------------------------------------- PATCH /api/orders/:id/status
PatchOrderStatus(id, status) ==
  /\ orders' = updateOrderStatus(id, status)
  /\ last' = IF id \in DOMAIN orders
             THEN Response("patchStatus", 200, [id |-> id, status |-> status])
             ELSE Response("patchStatus", 404, [id |-> id, status |-> status])
  /\ UNCHANGED authAndSeed
  /\ UNCHANGED <<products, procurementPrices, orderItems, deliveries, req, mark>>

PatchOrderStatusFail ==
  /\ last' = Response("patchStatus", 500, "failed")
  /\ UNCHANGED authAndSeed
  /\ UNCHANGED <<products, procurementPrices, orders, orderItems, deliveries,
                 req, mark>>

\* ------------------------------------------- POST /api/partner/set-price
SetPrice(productId, price) ==
  /\ Len(procurementPrices) < MaxPrices
  /\ procurementPrices' =
       setProcurementPrice([productId |-> productId, price |-> price])
  /\ last' = Response("setPrice", 200,
                      [productId |-> productId, price |-> price])
  /\ UNCHANGED authAndSeed
  /\ UNCHANGED <<products, orders, orderItems, deliveries, req, mark>>

\* insertProcurementPriceSchema.parse throws: the catch answers 400.
SetPriceMalformed ==
  /\ last' = Response("setPrice", 400, "malformed")
  /\ UNCHANGED authAndSeed
  /\ UNCHANGED <<products, procurementPrices, orders, orderItems, deliveries,
                 req, mark>>

\* The insert throws: the same catch answers 400.
SetPriceFail ==
  /\ last' = Response("setPrice", 400, "rejected")
  /\ UNCHANGED authAndSeed
  /\ UNCHANGED <<products, procurementPrices, orders, orderItems, deliveries,
                 req, mark>>

\* ------------------------------------- POST /api/partner/mark-delivered
MarkDeliveredCreate(orderId) ==
  /\ mark.pc = "idle"
  /\ Len(deliveries) < MaxDeliveries
  /\ deliveries' = createDelivery([orderId |-> orderId])
  /\ mark' = [pc |-> "updateStatus", orderId |-> orderId,
              delivery |-> Len(deliveries')]
  /\ last' = NoResponse
  /\ UNCHANGED authAndSeed
  /\ UNCHANGED <<products, procurementPrices, orders, orderItems, req>>

MarkDeliveredUpdateStatus ==
  /\ mark.pc = "updateStatus"
  /\ orders' = updateOrderStatus(mark.orderId, "DELIVERED")
  /\ last' = Response("markDelivered", 200, [orderId |-> mark.orderId])
  /\ mark' = IdleMark
  /\ UNCHANGED authAndSeed
  /\ UNCHANGED <<products, procurementPrices, orderItems, deliveries, req>>

\* insertDeliverySchema.parse throws: the catch answers 400.
MarkDeliveredMalformed ==
  /\ last' = Response("markDelivered", 400, "malformed")
  /\ UNCHANGED authAndSeed
  /\ UNCHANGED <<products, procurementPrices, orders, orderItems, deliveries,
                 req, mark>>

\* The pending storage call (createDelivery, then updateOrderStatus) throws:
\* the same catch answers 400.
MarkDeliveredFail ==
  /\ last' = Response("markDelivered", 400, "rejected")
  /\ mark' = IdleMark
  /\ UNCHANGED authAndSeed
  /\ UNCHANGED <<products, procurementPrices, orders, orderItems, deliveries,
                 req>>

\* ------------------------------------------------ POST /api/auth/register
\* bcrypt.hash and bcrypt.compare: a hash matches the password it was made of.
Hash(password) == [bcrypt |-> password]
Compare(password, hash) == hash = Hash(password)

getUserByEmail(email) == {i \in DOMAIN users : users[i].email = email}

createUser(insertUser) == Append(users, insertUser)

\* registerSchema.parse throws: the catch answers 400.
RegisterMalformed ==
  /\ last' = Response("register", 400, "malformed")
  /\ UNCHANGED <<products, procurementPrices, orders, orderItems, deliveries,
                 req, mark, users, auth, initialized, seed>>

\* The body parses and getUserByEmail resolves: 400 if the email is taken,
\* else the request goes on to hash the password and insert the user.
RegisterLookup(email, password) ==
  /\ auth.pc = "idle"
  /\ Len(users) < MaxUsers \/ getUserByEmail(email) # {}
  /\ IF getUserByEmail(email) # {}
     THEN /\ last' = Response("register", 400, "exists")
          /\ auth' = auth
     ELSE /\ last' = NoResponse
          /\ auth' = [pc |-> "createUser", email |-> email,
                      password |-> Hash(password)]
  /\ UNCHANGED <<products, procurementPrices, orders, orderItems, deliveries,
                 req, mark, users, initialized, seed>>

RegisterCreateUser ==
  /\ auth.pc = "createUser"
  /\ users' = createUser([email |-> auth.email, password |-> auth.password])
  /\ last' = Response("register", 200, [email |-> auth.email])
  /\ auth' = IdleAuth
  /\ UNCHANGED <<products, procurementPrices, orders, orderItems, deliveries,
                 req, mark, initialized, seed>>

\* The pending storage call (getUserByEmail, then createUser) throws: the
\* same catch answers 400.
RegisterFail ==
  /\ last' = Response("register", 400, "failed")
  /\ auth' = IdleAuth
  /\ UNCHANGED <<products, procurementPrices, orders, orderItems, deliveries,
                 req, mark, users, initialized, seed>>

\* --------------------------------------------------- POST /api/auth/login
\* loginSchema.parse throws: the catch answers 400.
LoginMalformed ==
  /\ last' = Response("login", 400, "malformed")
  /\ UNCHANGED <<products, procurementPrices, orders, orderItems, deliveries,
                 req, mark, users, auth, initialized, seed>>

\* The body parses and getUserByEmail resolves: 401 without a user of that
\* email or with another password.
Login(email, password) ==
  /\ last' =
       IF \E i \in getUserByEmail(email) :
            /\ \A j \in getUserByEmail(email) : i <= j
            /\ Compare(password, users[i].password)
       THEN Response("login", 200, [email |-> email])
       ELSE Response("login", 401, "unauthorized")
  /\ UNCHANGED <<products, procurementPrices, orders, orderItems, deliveries,
                 req, mark, users, auth, initialized, seed>>

\* getUserByEmail throws: the same catch answers 400.
LoginFail ==
  /\ last' = Response("login", 400, "failed")
  /\ UNCHANGED <<products, procurementPrices, orders, orderItems, deliveries,
                 req, mark, users, auth, initialized, seed>>

\* ------------------------------------------------------ GET /api/products
\* getAllProducts awaits initializeDefaultData, which returns at once when
\* the flag is set and else issues its query for one product row.
GetAllProductsBegin(c) ==
  /\ seed[c].pc = "idle"
  /\ \A d \in 1..(c - 1) : seed[d].pc # "idle"
  /\ seed' = [seed EXCEPT ![c].pc = IF initialized THEN "select" ELSE "check"]
  /\ last' = NoResponse
  /\ UNCHANGED <<products, procurementPrices, orders, orderItems, deliveries,
                 req, mark, users, auth, initialized>>

\* select().from(products).limit(1) resolves: with a row the flag is set and
\* initializeDefaultData returns, without one the insert is issued.
GetAllProductsCheck(c) ==
  /\ seed[c].pc = "check"
  /\ IF products # <<>>
     THEN /\ initialized' = TRUE
          /\ seed' = [seed EXCEPT ![c].pc = "select"]
     ELSE /\ initialized' = initialized
          /\ seed' = [seed EXCEPT ![c].pc = "insert"]
  /\ last' = NoResponse
  /\ UNCHANGED <<products, procurementPrices, orders, orderItems, deliveries,
                 req, mark, users, auth>>

\* db.insert(products).values(defaultProducts) resolves; the flag is set.
GetAllProductsInsert(c) ==
  /\ seed[c].pc = "insert"
  /\ products' = products \o DefaultProducts
  /\ initialized' = TRUE
  /\ seed' = [seed EXCEPT ![c].pc = "select"]
  /\ last' = NoResponse
  /\ UNCHANGED <<procurementPrices, orders, orderItems, deliveries,
                 req, mark, users, auth>>

\* select().from(products) resolves; res.json(products).
GetAllProductsSelect(c) ==
  /\ seed[c].pc = "select"
  /\ last' = Response("products", 200, "get")
  /\ seed' = [seed EXCEPT ![c] = IdleSeed]
  /\ UNCHANGED <<products, procurementPrices, orders, orderItems, deliveries,
                 req, mark, users, auth, initialized>>

\* ------------------------------------------------------------ GET routes
GetProcurementList ==
  /\ last' = Response("procurementList", 200, "get")
  /\ UNCHANGED authAndSeed
  /\ UNCHANGED <<products, procurementPrices, orders, orderItems, deliveries,
                 req, mark>>

GetOrders ==
  /\ last' = Response("orders", 200, "get")
  /\ UNCHANGED authAndSeed
  /\ UNCHANGED <<products, procurementPrices, orders, orderItems, deliveries,
                 req, mark>>

GetEarnings ==
  /\ last' = Response("earnings", 200, "get")
  /\ UNCHANGED authAndSeed
  /\ UNCHANGED <<products, procurementPrices, orders, orderItems, deliveries,
                 req, mark>>

\* ------------------------------------------------------------------ Next
\* The steps of the POST /api/orders requests in flight.
PlaceOrderStep ==
  \E r \in 1..NumReq :
    \/ PlaceOrderCreateOrder(r)
    \/ PlaceOrderCreateItem(r)
    \/ PlaceOrderItemRejected(r)
    \/ PlaceOrderUpdateStatus(r)
    \/ PlaceOrderGetOrder(r)

\* Every handler but set-price, on orders of at most MaxShortLines lines,
\* with storage faults.
Next ==
  \/ \E r \in {1}, items \in ShortItemLists, userId \in UserIds :
       \E latestPrices \in RowOrders(procurementPrices) :
         PlaceOrderBegin(r, items, userId, latestPrices)
  \/ PlaceOrderStep
  \/ PlaceOrderUnauthorized
  \/ \E id \in 1..MaxOrders, status \in Statuses : PatchOrderStatus(id, status)
  \/ \E orderId \in 1..MaxOrders : MarkDeliveredCreate(orderId)
  \/ MarkDeliveredUpdateStatus
  \/ GetProcurementList
  \/ GetEarnings
  \/ PlaceOrderRejected
  \/ \E r \in 1..NumReq : PlaceOrderFail(r)
  \/ PatchOrderStatusFail
  \/ MarkDeliveredFail

Spec == Init /\ [][Next]_vars

\* Concurrent order placements of up to MaxLines lines.
NextPlace ==
  \/ \E r \in 1..NumReq, items \in ItemLists, userId \in UserIds :
       \E latestPrices \in RowOrders(procurementPrices) :
         PlaceOrderBegin(r, items, userId, latestPrices)
  \/ PlaceOrderStep

SpecPlace == Init /\ [][NextPlace]_vars

\* Order placements of up to MaxLines lines against price updates.
NextPrice ==
  \/ \E r \in {1}, items \in ItemLists, userId \in UserIds :
       \E latestPrices \in RowOrders(procurementPrices) :
         PlaceOrderBegin(r, items, userId, latestPrices)
  \/ PlaceOrderStep
  \/ \E productId \in PricedProducts, price \in PriceStrings :
       SetPrice(productId, price)

SpecPrice == Init /\ [][NextPrice]_vars

\* Order placements of up to MaxLines lines against status updates.
NextDemand ==
  \/ \E r \in {1}, items \in ItemLists, userId \in UserIds :
       \E latestPrices \in RowOrders(procurementPrices) :
         PlaceOrderBegin(r, items, userId, latestPrices)
  \/ PlaceOrderStep
  \/ \E id \in 1..MaxOrders, status \in Statuses : PatchOrderStatus(id, status)

SpecDemand == Init /\ [][NextDemand]_vars

\* Order placements of up to MaxLines lines whose item inserts may fail,
\* against the order and procurement listings.
NextPartial ==
  \/ \E r \in {1}, items \in ItemLists, userId \in UserIds :
       \E latestPrices \in RowOrders(procurementPrices) :
         PlaceOrderBegin(r, items, userId, latestPrices)
  \/ PlaceOrderStep
  \/ \E r \in 1..NumReq : PlaceOrderItemFail(r)
  \/ GetOrders
  \/ GetProcurementList

SpecPartial == Init /\ [][NextPartial]_vars

\* Order placements whose lines may name a product that does not exist.
NextUnknown ==
  \/ \E r \in {1}, items \in UnknownItemLists, userId \in UserIds :
       \E latestPrices \in RowOrders(procurementPrices) :
         PlaceOrderBegin(r, items, userId, latestPrices)
  \/ PlaceOrderStep

SpecUnknown == Init /\ [][NextUnknown]_vars

\* Concurrent GET /api/products requests.
NextSeed ==
  \E c \in 1..NumSeed :
    \/ GetAllProductsBegin(c)
    \/ GetAllProductsCheck(c)
    \/ GetAllProductsInsert(c)
    \/ GetAllProductsSelect(c)

SpecSeed == Init /\ [][NextSeed]_vars

\* The handlers that validate a body, with malformed bodies and storage
\* faults, on orders of at most one line, prices of one value and deliveries
\* of the first order.
NextErrors ==
  \/ \E r \in {1}, items \in OneLineItemLists, userId \in UserIds :
       \E latestPrices \in RowOrders(procurementPrices) :
         PlaceOrderBegin(r, items, userId, latestPrices)
  \/ PlaceOrderStep
  \/ PlaceOrderMalformed
  \/ PlaceOrderUnauthorized
  \/ PlaceOrderRejected
  \/ \E r \in 1..NumReq : PlaceOrderFail(r)
  \/ \E productId \in PricedProducts, price \in {"5"} :
       SetPrice(productId, price)
  \/ SetPriceMalformed
  \/ SetPriceFail
  \/ \E orderId \in {1} : MarkDeliveredCreate(orderId)
  \/ MarkDeliveredUpdateStatus
  \/ MarkDeliveredMalformed
  \/ MarkDeliveredFail
  \/ \E email \in Emails, password \in Passwords :
       RegisterLookup(email, password)
  \/ RegisterCreateUser
  \/ RegisterMalformed
  \/ RegisterFail
  \/ \E email \in Emails, password \in Passwords : Login(email, password)
  \/ LoginMalformed
  \/ LoginFail

SpecErrors == Init /\ [][NextErrors]_vars

\* ================================================================ claims
ItemsOfOrder(id) ==
  LET ofOrder(row) == row.orderId = id
  IN SelectSeq(orderItems, ofOrder)

\* The price a request read for a product when it was placed (0 if none).
PriceRead(rq, productId) ==
  IF productId \in DOMAIN rq.priceMap THEN rq.priceMap[productId] ELSE 0

RECURSIVE SumOfLines(_, _)
SumOfLines(rq, n) ==
  IF n = 0 THEN 0
  ELSE PriceRead(rq, rq.items[n].productId) * rq.items[n].quantity
       + SumOfLines(rq, n - 1)

Answered(op, code) == last.op = op /\ last.code = code

InFlight(r) == req[r].pc \in {"createItem", "updateStatus", "getOrder"}

\* C1: the total of an order placed through POST /api/orders, as returned to
\* the caller and as stored, is 40 plus the sum of price * quantity over its
\* lines, at the prices read when the order was placed.
C1_TotalIsFeePlusLines ==
  Answered("placeOrder", 200) =>
    LET rq == last.request
        total == 40 + SumOfLines(rq, Len(rq.items))
    IN /\ ParseFloat(getOrder(rq.orderId).total) = total
       /\ ParseFloat(orders[rq.orderId].total) = total

\* What the handler does compute: its local total, which no row receives.
C1_LocalTotal ==
  Answered("placeOrder", 200) =>
    last.request.total = 40 + SumOfLines(last.request, Len(last.request.items))

\* The lines of request rq inserted so far are free where no price was read.
UnpricedLinesFree(rq) ==
  LET rows == ItemsOfOrder(rq.orderId)
  IN /\ Len(rows) = rq.done
     /\ \A j \in 1..rq.done :
          rq.items[j].productId \notin DOMAIN rq.priceMap =>
            /\ rows[j].productId = rq.items[j].productId
            /\ rows[j].price = "0"
     /\ rq.total = 40 + SumOfLines(rq, rq.done)

\* C2: a line whose product has no procurement price row raises no error (the
\* insert of its row is enabled whenever its product exists, and only a
\* rejected insert answers 500), its OrderItem row has price 0 and it adds 0
\* to the order total.
C2_UnpricedLineIsFree ==
  /\ \A r \in 1..NumReq : InFlight(r) => UnpricedLinesFree(req[r])
  /\ \A r \in 1..NumReq :
       (/\ req[r].pc = "createItem"
        /\ req[r].items[req[r].done + 1].productId \in DOMAIN products)
       => ENABLED PlaceOrderCreateItem(r)
  /\ Answered("placeOrder", 200) =>
       /\ last.request.done = Len(last.request.items)
       /\ UnpricedLinesFree(last.request)
  /\ Answered("placeOrder", 500) => products = <<>>

C2_Witness ==
  /\ Answered("placeOrder", 200)
  /\ Len(last.request.items) = 2
  /\ \E j, k \in 1..2 :
       /\ last.request.items[j].productId \notin DOMAIN last.request.priceMap
       /\ last.request.items[k].productId \in DOMAIN last.request.priceMap
       /\ last.request.total > 40

\* The rows request rq has inserted are its first `done` lines, in order,
\* under its own order.
RowsAreLines(rq) ==
  ItemsOfOrder(rq.orderId) =
    [j \in 1..rq.done |->
       [orderId |-> rq.orderId, productId |-> rq.items[j].productId,
        quantity |-> rq.items[j].quantity,
        price |-> ToString(PriceRead(rq, rq.items[j].productId))]]

\* C3: when a POST /api/orders with n lines has completed, its order has
\* exactly n OrderItem rows, one per line in order, each with the line's
\* product, quantity and price read, under the new order's id, whatever other
\* placements interleave; every row belongs to an existing order.
C3_OneRowPerLine ==
  /\ \A r \in 1..NumReq : InFlight(r) => RowsAreLines(req[r])
  /\ \A r \in 1..NumReq :
       req[r].pc \in {"updateStatus", "getOrder"} =>
         req[r].done = Len(req[r].items)
  /\ Answered("placeOrder", 200) =>
       /\ last.request.done = Len(last.request.items)
       /\ RowsAreLines(last.request)
  /\ \A i \in DOMAIN orderItems : orderItems[i].orderId \in DOMAIN orders
  /\ \A r, q \in 1..NumReq :
       InFlight(r) /\ InFlight(q) /\ r # q => req[r].orderId # req[q].orderId

C3_Witness ==
  /\ Answered("placeOrder", 200)
  /\ Len(last.request.items) = 2
  /\ Len(orderItems) >= 3
  /\ orderItems[1].orderId # orderItems[2].orderId
  /\ \E r \in 1..NumReq : InFlight(r) /\ req[r].done >= 1

\* Outstanding demand for product p: the item rows of PLACED orders.
DemandRows(p) ==
  {i \in DOMAIN orderItems :
     /\ orderItems[i].productId = p
     /\ orders[orderItems[i].orderId].status = "PLACED"}

RECURSIVE SumQuantities(_)
SumQuantities(rows) ==
  IF rows = {} THEN 0
  ELSE LET i == CHOOSE i \in rows : TRUE
       IN orderItems[i].quantity + SumQuantities(rows \ {i})

Delivered == {i \in DOMAIN orders : orders[i].status = "DELIVERED"}

\* C5: getPartnerEarnings returns totalDeliveries = the number of DELIVERED
\* orders and totalEarnings = 40 * totalDeliveries, whatever the orders hold
\* and whatever partnerId is given, {0, 0} when no order is DELIVERED.
C5_Earnings ==
  \A partnerId \in {"none", "p1", "p2"} :
    getPartnerEarnings(partnerId) =
      [totalDeliveries |-> Cardinality(Delivered),
       totalEarnings |-> 40 * Cardinality(Delivered)]

C5_Witness ==
  /\ Answered("earnings", 200)
  /\ Cardinality(Delivered) = 2
  /\ deliveries = <<>>
  /\ getPartnerEarnings("p1").totalEarnings = 80

HasDelivery(id) == \E d \in DOMAIN deliveries : deliveries[d].orderId = id

\* C6: when POST /api/partner/mark-delivered answers success for an order
\* id, a Delivery row of that id exists and the order's status is DELIVERED;
\* the Delivery row is there before the status is written (the request is
\* then between its two effects).
C6_MarkDelivered ==
  /\ Answered("markDelivered", 200) =>
       /\ HasDelivery(last.request.orderId)
       /\ last.request.orderId \in DOMAIN orders =>
            orders[last.request.orderId].status = "DELIVERED"
  /\ mark.pc = "updateStatus" => HasDelivery(mark.orderId)

C6_Witness ==
  /\ Answered("markDelivered", 200)
  /\ last.request.orderId \in DOMAIN orders
  /\ orders[last.request.orderId].status = "DELIVERED"
  /\ HasDelivery(last.request.orderId)

\* The two effects are not atomic: another request is answered while the
\* Delivery row exists and the order is not yet DELIVERED.
C6_BetweenEffects ==
  /\ mark.pc = "updateStatus"
  /\ mark.orderId \in DOMAIN orders
  /\ orders[mark.orderId].status # "DELIVERED"
  /\ HasDelivery(mark.orderId)
  /\ Answered("earnings", 200)

\* What a status update of order id leaves: the status supplied, every other
\* field, every other order and every other table as they were.
PatchEffect(id, status) ==
  /\ DOMAIN orders' = DOMAIN orders
  /\ orders'[id].status = status
  /\ orders'[id].userId = orders[id].userId
  /\ orders'[id].total = orders[id].total
  /\ \A j \in DOMAIN orders : j # id => orders'[j] = orders[j]
  /\ UNCHANGED authAndSeed
  /\ UNCHANGED <<products, procurementPrices, orderItems, deliveries, req, mark>>

\* C7: PATCH /api/orders/:id/status on an existing order sets its status to
\* the value supplied whatever the current status is (from every status every
\* status is one request away) and changes no other field and no other order.
C7_PatchSetsAnyStatus ==
  \A id \in DOMAIN orders, status \in Statuses :
    ENABLED (/\ PatchOrderStatus(id, status)
             /\ PatchEffect(id, status)
             /\ last' = Response("patchStatus", 200,
                                 [id |-> id, status |-> status]))

C7_Witness ==
  /\ Answered("patchStatus", 200)
  /\ last.request.status = "PLACED"
  /\ orders[last.request.id].status = "PLACED"
  /\ HasDelivery(last.request.id)
  /\ mark.pc = "idle"
  /\ \A r \in 1..NumReq : Idle(r)

Rank(status) ==
  CASE status = "PLACED" -> 1
    [] status = "PROCURING" -> 2
    [] status = "ON_THE_WAY" -> 3
    [] status = "DELIVERED" -> 4

\* C8 as claimed: an order's status starts at PLACED, never moves to an
\* earlier state and never leaves DELIVERED.
C8_StatusMonotonic ==
  [][/\ \A i \in DOMAIN orders' \ DOMAIN orders : orders'[i].status = "PLACED"
     /\ \A i \in DOMAIN orders :
          Rank(orders'[i].status) >= Rank(orders[i].status)]_vars

\* C8 as amended: an order's status starts at PLACED and is always one of
\* the four statuses; it changes only by a status update (PATCH to the status
\* supplied, mark-delivered to DELIVERED, the placement's own rewrite to
\* PLACED), in no enforced order.
C8_StartsPlaced ==
  [][/\ DOMAIN orders \subseteq DOMAIN orders'
     /\ \A i \in DOMAIN orders' \ DOMAIN orders : orders'[i].status = "PLACED"
     /\ \A i \in DOMAIN orders' : orders'[i].status \in Statuses
     /\ \A i \in DOMAIN orders :
          orders'[i].status # orders[i].status =>
            \/ /\ last'.op = "patchStatus" /\ last'.code = 200
               /\ last'.request = [id |-> i, status |-> orders'[i].status]
            \/ /\ last'.op = "markDelivered" /\ last'.code = 200
               /\ last'.request.orderId = i
               /\ orders'[i].status = "DELIVERED"
            \/ /\ \E r \in 1..NumReq :
                    req[r].pc = "updateStatus" /\ req[r].orderId = i
               /\ orders'[i].status = "PLACED"]_vars

C8_Witness ==
  \E i \in DOMAIN orders :
    /\ orders[i].status = "ON_THE_WAY"
    /\ HasDelivery(i)
    /\ mark.pc = "idle"
    /\ last = Response("patchStatus", 200, [id |-> i, status |-> "ON_THE_WAY"])

C10_PriceSnapshot ==
  [][/\ \A i \in DOMAIN orderItems :
          i \in DOMAIN orderItems' /\ orderItems'[i] = orderItems[i]
     /\ procurementPrices' # procurementPrices =>
          /\ last'.op = "setPrice"
          /\ orderItems' = orderItems /\ orders' = orders /\ req' = req
     /\ (req' # req \/ orderItems' # orderItems \/ orders' # orders) =>
          procurementPrices' = procurementPrices
     /\ Len(orderItems') > Len(orderItems) =>
          \E r \in 1..NumReq :
            /\ req[r].pc = "createItem"
            /\ orderItems'[Len(orderItems')] =
                 [orderId |-> req[r].orderId,
                  productId |-> req[r].items[req[r].done + 1].productId,
                  quantity |-> req[r].items[req[r].done + 1].quantity,
                  price |-> ToString(PriceRead(req[r],
                              req[r].items[req[r].done + 1].productId))]]_vars

C10_Witness ==
  /\ Answered("setPrice", 200)
  /\ \E r \in 1..NumReq : InFlight(r) /\ req[r].done >= 1
  /\ \E i \in DOMAIN orderItems :
       /\ orderItems[i].productId = last.request.productId
       /\ ParseFloat(orderItems[i].price) # ParseFloat(last.request.price)
       /\ ParseFloat(orderItems[i].price) # 0

\* C11: POST /api/partner/set-price is append-only: a successful call adds
\* exactly one procurement price row, the one it was sent, after the rows
\* there were; no step of any request changes or removes a price row; a call
\* succeeds whatever rows exist and whatever else is in flight, so of two
\* updates of one product, in either order, both rows are present.
C11_AppendOnly ==
  [][/\ \A i \in DOMAIN procurementPrices :
          i \in DOMAIN procurementPrices'
          /\ procurementPrices'[i] = procurementPrices[i]
     /\ (last'.op = "setPrice" /\ last'.code = 200) =>
          procurementPrices' = Append(procurementPrices, last'.request)
     /\ last'.op # "setPrice" => procurementPrices' = procurementPrices
     /\ Len(procurementPrices) < MaxPrices =>
          \A productId \in PricedProducts, price \in PriceStrings :
            ENABLED SetPrice(productId, price)]_vars

C11_Witness ==
  /\ Answered("setPrice", 200)
  /\ Len(procurementPrices) = 2
  /\ procurementPrices[1].productId = procurementPrices[2].productId
  /\ procurementPrices[1].price # procurementPrices[2].price
  /\ procurementPrices[2] = last.request
  /\ \E r \in 1..NumReq : InFlight(r)

ValidatingOps == {"placeOrder", "setPrice", "markDelivered", "register", "login"}

\* C12: on every endpoint that validates its request body (POST /api/orders,
\* set-price, mark-delivered, register, login) a malformed body is answered
\* 400 and a failure of the persistence layer is answered 500.
C12_MalformedIs400StorageIs500 ==
  (last.op \in ValidatingOps /\ last.code \notin {200, 401}) =>
    /\ last.request = "malformed" => last.code = 400
    /\ last.request \in {"rejected", "failed"} => last.code = 500

\* C13: a POST /api/orders with a valid body and no user id is answered 401
\* and changes nothing stored (no Order row, no OrderItem row, no request in
\* flight); a PATCH /api/orders/:id/status whose id matches no order is
\* answered 404, and a step answered 404 named no existing order and changed
\* no order and no other row.
C13_RefusedChangesNothing ==
  [][/\ (last'.op = "placeOrder" /\ last'.code = 401) =>
          UNCHANGED <<products, procurementPrices, orders, orderItems,
                      deliveries, req, mark>>
     /\ (last'.op = "patchStatus" /\ last'.code = 404) =>
          /\ last'.request.id \notin DOMAIN orders
          /\ UNCHANGED <<products, procurementPrices, orders, orderItems,
                         deliveries, req, mark>>
     /\ ENABLED (PlaceOrderUnauthorized /\ last'.code = 401)
     /\ \A id \in (1..MaxOrders) \ DOMAIN orders, status \in Statuses :
          ENABLED (/\ PatchOrderStatus(id, status)
                   /\ last' = Response("patchStatus", 404,
                                       [id |-> id, status |-> status])
                   /\ orders' = orders)]_vars

C13_Witness ==
  /\ Answered("patchStatus", 404)
  /\ Len(orders) = 1
  /\ last.request.id = 2
  /\ orders[1].status = "PLACED"
  /\ orderItems # <<>>

\* The 401 case: the refusal comes while another request is writing an order.
C13_UnauthorizedInFlight ==
  /\ Answered("placeOrder", 401)
  /\ \E r \in 1..NumReq : req[r].pc = "createItem"
  /\ Len(orders) = 1

\* C14: order creation is not transactional: when the insert of the k-th
\* item of a request fails, the caller gets 500, no row is removed or
\* changed, the Order row stays with status PLACED and the placeholder total
\* together with exactly the rows of the k-1 lines inserted before, the order
\* is in the order listing with those items and every product of those items
\* is in the procurement list.
C14_NoRollback ==
  [][\A r \in 1..NumReq :
       (/\ req[r].pc = "createItem"
        /\ req'[r].pc = "idle"
        /\ last'.op = "placeOrder") =>
         LET rq == req[r]
             id == rq.orderId
         IN /\ last'.code = 500
            /\ UNCHANGED <<products, procurementPrices, orders, orderItems,
                           deliveries>>
            /\ id \in DOMAIN orders'
            /\ orders'[id] =
                 [userId |-> rq.userId, status |-> "PLACED", total |-> "0"]
            /\ rq.done < Len(rq.items)
            /\ RowsAreLines(rq)
            /\ getAllOrders'[id].status = "PLACED"
            /\ Len(getAllOrders'[id].items) = rq.done
            /\ \E userId \in UserIds :
                 userId = rq.userId /\ getOrdersByUser(userId)' # <<>>
            /\ \A j \in 1..rq.done :
                 \E m \in DOMAIN getAggregatedProcurementList' :
                   /\ getAggregatedProcurementList'[m].productId =
                        rq.items[j].productId
                   /\ getAggregatedProcurementList'[m].totalQuantity >=
                        rq.items[j].quantity]_vars

C14_Witness ==
  /\ Answered("placeOrder", 500)
  /\ last.request = "item failed"
  /\ \A r \in 1..NumReq : Idle(r)
  /\ Len(orders) = 1
  /\ orders[1] = NewOrder("u1")
  /\ Len(orderItems) = 1
  /\ Len(getAllOrders[1].items) = 1
  /\ Len(getAggregatedProcurementList) = 1

\* C15: in every reachable state every OrderItem row references an existing
\* Order and an existing Product; a line whose productId matches no product
\* gets no row (its insert is refused and the request is answered 500), and
\* a request answered 200 named existing products only.
C15_ItemsReferenceRows ==
  /\ \A i \in DOMAIN orderItems :
       /\ orderItems[i].orderId \in DOMAIN orders
       /\ orderItems[i].productId \in DOMAIN products
  /\ \A r \in 1..NumReq :
       (/\ req[r].pc = "createItem"
        /\ req[r].items[req[r].done + 1].productId \notin DOMAIN products)
       => /\ ~ENABLED PlaceOrderCreateItem(r)
          /\ ENABLED PlaceOrderItemRejected(r)
  /\ Answered("placeOrder", 200) =>
       \A j \in DOMAIN last.request.items :
         last.request.items[j].productId \in DOMAIN products

C15_Witness ==
  /\ Answered("placeOrder", 500)
  /\ products = DefaultProducts
  /\ \A r \in 1..NumReq : Idle(r)
  /\ Len(orders) = 2
  /\ Len(ItemsOfOrder(1)) = 2
  /\ Len(ItemsOfOrder(2)) = 1

Count(rows, row) == Cardinality({i \in DOMAIN rows : rows[i] = row})

\* The rows of product pid in the sequence a request was returned.
RowsOf(rows, pid) == {i \in DOMAIN rows : rows[i].productId = pid}

\* The price a request uses for product pid: that of the last of its rows
\* in the returned sequence, 0 without a row.
PriceUsed(rows, pid) ==
  IF RowsOf(rows, pid) = {} THEN 0
  ELSE ParseFloat(rows[CHOOSE i \in RowsOf(rows, pid) :
                         \A j \in RowsOf(rows, pid) : j <= i].price)

\* C16: getLatestProcurementPrices returns every procurement price row, each
\* once, also several of one product; the price map of a placement holds for
\* each product the price of the row that comes last in the sequence
\* returned, and every OrderItem row the placement inserts carries that price.
C16_LastReturnedRowWins ==
  [][\A r \in 1..NumReq :
       /\ (req[r].pc = "idle" /\ req'[r].pc # "idle") =>
            /\ Len(req'[r].latestPrices) = Len(procurementPrices)
            /\ \A i \in DOMAIN procurementPrices :
                 Count(req'[r].latestPrices, procurementPrices[i]) =
                   Count(procurementPrices, procurementPrices[i])
            /\ DOMAIN req'[r].priceMap =
                 {procurementPrices[i].productId : i \in DOMAIN procurementPrices}
            /\ \A pid \in DOMAIN req'[r].priceMap :
                 req'[r].priceMap[pid] = PriceUsed(req'[r].latestPrices, pid)
       /\ (req[r].pc = "createItem" /\ Len(orderItems') > Len(orderItems)) =>
            LET row == orderItems'[Len(orderItems')]
            IN /\ row.productId = req[r].items[req[r].done + 1].productId
               /\ row.price =
                    ToString(PriceUsed(req[r].latestPrices, row.productId))]_vars

\* The row used is the older one: the newer row was returned first.
C16_Witness ==
  \E r \in 1..NumReq :
    /\ InFlight(r)
    /\ Len(procurementPrices) = 2
    /\ req[r].latestPrices = <<procurementPrices[2], procurementPrices[1]>>
    /\ procurementPrices[1].productId = procurementPrices[2].productId
    /\ ParseFloat(procurementPrices[1].price)
         # ParseFloat(procurementPrices[2].price)
    /\ \E i \in DOMAIN orderItems :
         /\ orderItems[i].orderId = req[r].orderId
         /\ orderItems[i].productId = procurementPrices[1].productId
         /\ orderItems[i].price =
              ToString(ParseFloat(procurementPrices[1].price))

\* C17: default products are seeded at most once: a product table that has
\* rows is never inserted into, the table is always empty or exactly the four
\* default products once each, and when a getAllProducts call has answered
\* the table holds exactly those four, however concurrent calls interleave.
C17_SeededOnce ==
  [][/\ products # <<>> => products' = products
     /\ products' \in {<<>>, DefaultProducts}
     /\ last'.op = "products" => products' = DefaultProducts]_vars
====
